---- MODULE Spec2Model ----
(***************************************************************************)
(* The directed graph store (graph/hash_table.rs) and the divide-and-      *)
(* conquer ordering heuristic of Eades, Smyth and Lin                      *)
(* (fas/divide_and_conquer_by_order_heuristic.rs).                         *)
(*                                                                         *)
(* A graph value is the BTreeMap `data`: a function from the vertex ids    *)
(* that are keys to the Vec of out-neighbours of each key.  An edge is a   *)
(* pair <<source, target>>.                                                *)
(***************************************************************************)
EXTENDS Integers, Sequences, FiniteSets

\* Vertex identifiers are 0 .. NumVertices-1.
NumVertices == 3
\* add_edge is not called on a graph that already has MaxEdges edges.
MaxEdges == 3
\* Longest vertex list / edge list handed to a constructor.
MaxInitLen == 2

VertexId == 0 .. (NumVertices - 1)
Edge == VertexId \X VertexId
Direction == {"Inbound", "Outbound"}

VARIABLES
  data,      \* HashTable.data of the graph the caller owns
  pc,        \* "new" | "ready" | "order" | "collect"
  call,      \* the operation called last (or running), with its arguments
  ret,       \* what that operation returned
  stack,     \* activation records of order(), innermost last
  ordering   \* local `ordering` of feedback_arc_set

vars == <<data, pc, call, ret, stack, ordering>>

----------------------------------------------------------------------------
\* Small helpers on sequences and sets.

RECURSIVE SortedSeq(_)
SortedSeq(S) ==
  IF S = {} THEN <<>>
  ELSE LET m == CHOOSE x \in S : \A y \in S : x <= y
       IN <<m>> \o SortedSeq(S \ {m})

Contains(s, x) == \E i \in 1..Len(s) : s[i] = x

Range(s) == { s[i] : i \in 1..Len(s) }

\* neighbors.iter().position(|n| n == x).map(|i| neighbors.remove(i)):
\* the first occurrence of x is taken out, the rest keeps its order.
RemoveFirst(s, x) ==
  IF ~Contains(s, x) THEN s
  ELSE LET p == CHOOSE i \in 1..Len(s) : s[i] = x /\ \A j \in 1..(i-1) : s[j] # x
       IN SubSeq(s, 1, p - 1) \o SubSeq(s, p + 1, Len(s))

RECURSIVE SeqsUpTo(_, _)
SeqsUpTo(S, n) ==
  IF n = 0 THEN { <<>> }
  ELSE LET shorter == SeqsUpTo(S, n - 1)
       IN shorter \cup { Append(s, x) : s \in shorter, x \in S }

----------------------------------------------------------------------------
\* HashTable: creational, informational and mutating methods.

new == [k \in {} |-> <<>>]

add_vertex(g, v) ==
  [k \in (DOMAIN g) \cup {v} |-> IF k \in DOMAIN g THEN g[k] ELSE <<>>]

\* add_edge without its last line, data.entry(e.1).or_insert_with(Vec::new).
add_edge_no_target_key(g, e) ==
  LET g1 == add_vertex(g, e[1])
  IN [g1 EXCEPT ![e[1]] = IF Contains(@, e[2]) THEN @ ELSE Append(@, e[2])]

add_edge(g, e) ==
  LET g1 == add_vertex(g, e[1])
      g2 == [g1 EXCEPT ![e[1]] = IF Contains(@, e[2]) THEN @ ELSE Append(@, e[2])]
  IN add_vertex(g2, e[2])

\* remove_vertex without the scan of the other vertices' neighbour lists.
remove_vertex_key_only(g, v) ==
  [k \in (DOMAIN g) \ {v} |-> g[k]]

remove_vertex(g, v) ==
  [k \in (DOMAIN g) \ {v} |-> RemoveFirst(g[k], v)]

remove_edge(g, e) ==
  IF e[1] \in DOMAIN g
  THEN [g EXCEPT ![e[1]] = RemoveFirst(@, e[2])]
  ELSE g

RECURSIVE AddVertices(_, _)
AddVertices(g, vs) ==
  IF vs = <<>> THEN g ELSE AddVertices(add_vertex(g, Head(vs)), Tail(vs))

RECURSIVE AddEdges(_, _)
AddEdges(g, es) ==
  IF es = <<>> THEN g ELSE AddEdges(add_edge(g, Head(es)), Tail(es))

from_edges(es) == AddEdges(new, es)

from_vertices_and_edges(vs, es) == AddEdges(AddVertices(new, vs), es)

vertices(g) == SortedSeq(DOMAIN g)

RECURSIVE SumLen(_, _)
SumLen(g, S) ==
  IF S = {} THEN 0
  ELSE LET k == CHOOSE x \in S : TRUE
       IN Len(g[k]) + SumLen(g, S \ {k})

edge_count(g) == SumLen(g, DOMAIN g)

\* edges(v, Outbound): data.get(&v).unwrap() -- only defined for a key.
edges_outbound(g, v) == [i \in 1..Len(g[v]) |-> <<v, g[v][i]>>]

\* edges(v, Inbound): a scan of all keys in ascending order.
edges_inbound(g, v) ==
  LET HasV(k) == Contains(g[k], v)
      sources == SelectSeq(vertices(g), HasV)
  IN [i \in 1..Len(sources) |-> <<sources[i], v>>]

\* graph.edges(v, Direction::Inbound).len()
indegree(g, v) == Len(edges_inbound(g, v))

RECURSIVE FlatOutbound(_, _)
FlatOutbound(g, vs) ==
  IF vs = <<>> THEN <<>>
  ELSE edges_outbound(g, Head(vs)) \o FlatOutbound(g, Tail(vs))

all_edges(g) == FlatOutbound(g, vertices(g))

EdgeSet(g) == Range(all_edges(g))

----------------------------------------------------------------------------
\* Collaborators of the heuristic whose code is outside the source tree.

\* TopologicalSort::sort_by_indegree_asc: the vertices by ascending indegree,
\* the indegrees taken once from g; ties by ascending identifier.
RECURSIVE SortByIndegree(_, _)
SortByIndegree(g, S) ==
  IF S = {} THEN <<>>
  ELSE LET m == CHOOSE x \in S : \A y \in S :
                   \/ indegree(g, x) < indegree(g, y)
                   \/ indegree(g, x) = indegree(g, y) /\ x <= y
       IN <<m>> \o SortByIndegree(g, S \ {m})

sort_by_indegree_asc(g) == SortByIndegree(g, DOMAIN g)

\* CycleDetection::is_cyclic: some vertex reaches itself along >= 1 edge.
Successors(g, S) == UNION { Range(g[k]) : k \in S \cap DOMAIN g }

RECURSIVE ReachFrom(_, _)
ReachFrom(g, S) ==
  LET T == S \cup Successors(g, S)
  IN IF T = S THEN S ELSE ReachFrom(g, T)

is_cyclic(g) ==
  \E v \in DOMAIN g : v \in ReachFrom(g, Successors(g, {v}))

----------------------------------------------------------------------------
\* fas/divide_and_conquer_by_order_heuristic.rs

\* for v in ordering { for edge in graph.edges(v, Outbound) {
\*   if edge.1 < v { leftward_edges.insert(edge) } } }
\* collect_leftward_edges inserting (edge.1, edge.0) for (edge.0, edge.1).
collect_leftward_edges_reversed(g, ord) ==
  UNION { { <<e[2], e[1]>> : e \in { x \in Range(edges_outbound(g, ord[i])) : x[2] < ord[i] } }
          : i \in 1..Len(ord) }

collect_leftward_edges(g, ord) ==
  UNION { { e \in Range(edges_outbound(g, ord[i])) : e[2] < ord[i] }
          : i \in 1..Len(ord) }

\* vertex_with_min_indegree keeping the last of several equally minimal
\* elements (as Iterator::max_by does for maxima).
vertex_with_min_indegree_last(g) ==
  LET vs == vertices(g)
      p  == CHOOSE i \in 1..Len(vs) :
              /\ \A j \in 1..Len(vs) : indegree(g, vs[i]) <= indegree(g, vs[j])
              /\ \A j \in (i+1)..Len(vs) : indegree(g, vs[j]) > indegree(g, vs[i])
  IN vs[p]

\* Iterator::min_by returns the first of several equally minimal elements.
vertex_with_min_indegree(g) ==
  LET vs == vertices(g)
      p  == CHOOSE i \in 1..Len(vs) :
              /\ \A j \in 1..Len(vs) : indegree(g, vs[i]) <= indegree(g, vs[j])
              /\ \A j \in 1..(i-1) : indegree(g, vs[j]) > indegree(g, vs[i])
  IN vs[p]

\* subgraph without its filter on vertices_to_keep.
subgraph_unfiltered(g, vertices_to_keep) ==
  from_edges(all_edges(g))

subgraph(g, vertices_to_keep) ==
  LET Kept(e) == Contains(vertices_to_keep, e[1]) /\ Contains(vertices_to_keep, e[2])
  IN from_edges(SelectSeq(all_edges(g), Kept))

\* An activation of order(g).  g is the graph the activation received.
Frame(g) == [g |-> g, at |-> "entry", v |-> 0, s1 |-> <<>>, g2 |-> new]

\* The stack after the innermost activation returns r to its caller.
Returned(r) ==
  LET n == Len(stack)
      caller == stack[n - 1]
      resumed == IF caller.at = "odd_call"
                 THEN [caller EXCEPT !.at = "odd_ret", !.s1 = r]
                 ELSE IF caller.at = "even_call1"
                 THEN [caller EXCEPT !.at = "even_mid", !.s1 = r]
                 ELSE [caller EXCEPT !.at = "even_ret", !.s1 = caller.s1 \o r]
  IN IF n = 1 THEN <<>> ELSE Append(SubSeq(stack, 1, n - 2), resumed)

Return(r) ==
  /\ stack' = Returned(r)
  /\ IF Len(stack) = 1
     THEN pc' = "collect" /\ ordering' = r
     ELSE pc' = pc /\ ordering' = ordering
  /\ UNCHANGED <<data, call, ret>>

Top == stack[Len(stack)]

----------------------------------------------------------------------------
\* Values of `call` and `ret`.

Call(op, u, v, d) == [op |-> op, u |-> u, v |-> v, d |-> d]

Unit == [kind |-> "unit", n |-> 0, list |-> <<>>, set |-> {}]
Panic == [kind |-> "panic", n |-> 0, list |-> <<>>, set |-> {}]
Usize(n) == [kind |-> "usize", n |-> n, list |-> <<>>, set |-> {}]
EdgeVec(l) == [kind |-> "vec", n |-> 0, list |-> l, set |-> {}]
EdgeHashSet(s) == [kind |-> "set", n |-> 0, list |-> <<>>, set |-> s]

----------------------------------------------------------------------------
Init ==
  /\ data = new
  /\ pc = "new"
  /\ call = Call("none", 0, 0, "-")
  /\ ret = Unit
  /\ stack = <<>>
  /\ ordering = <<>>

\* The three constructors.
New ==
  /\ pc = "new"
  /\ data' = new
  /\ pc' = "ready"
  /\ call' = Call("new", 0, 0, "-")
  /\ ret' = Unit
  /\ UNCHANGED <<stack, ordering>>

FromEdges ==
  /\ pc = "new"
  /\ \E es \in SeqsUpTo(Edge, MaxInitLen) : data' = from_edges(es)
  /\ pc' = "ready"
  /\ call' = Call("from_edges", 0, 0, "-")
  /\ ret' = Unit
  /\ UNCHANGED <<stack, ordering>>

FromVerticesAndEdges ==
  /\ pc = "new"
  /\ \E vs \in SeqsUpTo(VertexId, MaxInitLen), es \in SeqsUpTo(Edge, MaxInitLen) :
       data' = from_vertices_and_edges(vs, es)
  /\ pc' = "ready"
  /\ call' = Call("from_vertices_and_edges", 0, 0, "-")
  /\ ret' = Unit
  /\ UNCHANGED <<stack, ordering>>

\* Mutating methods.
AddEdge ==
  /\ pc = "ready"
  /\ edge_count(data) < MaxEdges
  /\ \E e \in Edge :
       /\ data' = add_edge(data, e)
       /\ call' = Call("add_edge", e[1], e[2], "-")
  /\ ret' = Unit
  /\ UNCHANGED <<pc, stack, ordering>>

RemoveVertex ==
  /\ pc = "ready"
  /\ \E v \in VertexId :
       /\ data' = remove_vertex(data, v)
       /\ call' = Call("remove_vertex", 0, v, "-")
  /\ ret' = Unit
  /\ UNCHANGED <<pc, stack, ordering>>

RemoveEdge ==
  /\ pc = "ready"
  /\ \E e \in Edge :
       /\ data' = remove_edge(data, e)
       /\ call' = Call("remove_edge", e[1], e[2], "-")
  /\ ret' = Unit
  /\ UNCHANGED <<pc, stack, ordering>>

\* Informational methods.
Degree ==
  /\ pc = "ready"
  /\ \E u \in VertexId :
       /\ call' = Call("degree", u, 0, "-")
       /\ ret' = IF u \in DOMAIN data THEN Usize(Len(data[u])) ELSE Panic
  /\ UNCHANGED <<data, pc, stack, ordering>>

Edges ==
  /\ pc = "ready"
  /\ \E v \in VertexId, d \in Direction :
       /\ call' = Call("edges", 0, v, d)
       /\ ret' = IF d = "Outbound"
                 THEN IF v \in DOMAIN data
                      THEN EdgeVec(edges_outbound(data, v))
                      ELSE Panic
                 ELSE EdgeVec(edges_inbound(data, v))
  /\ UNCHANGED <<data, pc, stack, ordering>>

\* DivideAndConquerByOrderHeuristic::feedback_arc_set: order(self.graph.clone())
FeedbackArcSet ==
  /\ pc = "ready"
  /\ pc' = "order"
  /\ call' = Call("feedback_arc_set", 0, 0, "-")
  /\ ret' = Unit
  /\ stack' = << Frame(data) >>
  /\ UNCHANGED <<data, ordering>>

\* order: g.edge_count() == 0
OrderBase ==
  /\ pc = "order"
  /\ Top.at = "entry"
  /\ edge_count(Top.g) = 0
  /\ Return(vertices(Top.g))

\* order: edge_count % 2 == 1, up to the recursive call
OrderOdd ==
  /\ pc = "order"
  /\ Top.at = "entry"
  /\ edge_count(Top.g) % 2 = 1
  /\ LET v == vertex_with_min_indegree(Top.g)
     IN stack' = Append([stack EXCEPT ![Len(stack)] = [@ EXCEPT !.at = "odd_call", !.v = v]],
                        Frame(remove_vertex(Top.g, v)))
  /\ UNCHANGED <<data, pc, call, ret, ordering>>

\* order: ordering1.insert(0, v)
OrderOddReturn ==
  /\ pc = "order"
  /\ Top.at = "odd_ret"
  /\ Return(<<Top.v>> \o Top.s1)

\* order: the even branch up to order(g1)
OrderEven ==
  /\ pc = "order"
  /\ Top.at = "entry"
  /\ edge_count(Top.g) # 0
  /\ edge_count(Top.g) % 2 = 0
  /\ LET sorted == sort_by_indegree_asc(Top.g)
         half == Len(sorted) \div 2
         g1 == subgraph(Top.g, SubSeq(sorted, 1, half))
         g2 == subgraph(Top.g, SubSeq(sorted, half + 1, Len(sorted)))
     IN stack' = Append([stack EXCEPT ![Len(stack)] = [@ EXCEPT !.at = "even_call1", !.g2 = g2]],
                        Frame(g1))
  /\ UNCHANGED <<data, pc, call, ret, ordering>>

\* order: order(g2)
OrderEvenSecond ==
  /\ pc = "order"
  /\ Top.at = "even_mid"
  /\ stack' = Append([stack EXCEPT ![Len(stack)] = [@ EXCEPT !.at = "even_call2"]],
                     Frame(Top.g2))
  /\ UNCHANGED <<data, pc, call, ret, ordering>>

\* order: s1.extend(s2)
OrderEvenReturn ==
  /\ pc = "order"
  /\ Top.at = "even_ret"
  /\ Return(Top.s1)

\* feedback_arc_set: collect_leftward_edges(self.graph, ordering)
CollectLeftwardEdges ==
  /\ pc = "collect"
  /\ ret' = EdgeHashSet(collect_leftward_edges(data, ordering))
  /\ pc' = "ready"
  /\ ordering' = <<>>
  /\ UNCHANGED <<data, call, stack>>

Next ==
  \/ New
  \/ FromEdges
  \/ FromVerticesAndEdges
  \/ AddEdge
  \/ RemoveVertex
  \/ RemoveEdge
  \/ Degree
  \/ Edges
  \/ FeedbackArcSet
  \/ OrderBase
  \/ OrderOdd
  \/ OrderOddReturn
  \/ OrderEven
  \/ OrderEvenSecond
  \/ OrderEvenReturn
  \/ CollectLeftwardEdges

Spec == Init /\ [][Next]_vars

----------------------------------------------------------------------------
\* Properties.

\* feedback_arc_set has returned; its result is ret.set.
FasReturned == pc = "ready" /\ call.op = "feedback_arc_set"

\* tests::test_feedback_arc_set, remove_edges: the graph without `edges`.
RECURSIVE remove_edges(_, _)
remove_edges(g, edges) ==
  IF edges = {} THEN g
  ELSE LET e == CHOOSE x \in edges : TRUE
       IN remove_edges(remove_edge(g, e), edges \ {e})

\* a appears before b in the sequence ord.
Before(ord, a, b) ==
  \E i \in 1..Len(ord), j \in 1..Len(ord) : i < j /\ ord[i] = a /\ ord[j] = b

NoDuplicates(s) == \A i \in 1..Len(s), j \in 1..Len(s) : s[i] = s[j] => i = j

IsTriangle(g) ==
  \E a \in DOMAIN g, b \in DOMAIN g, c \in DOMAIN g :
     /\ Cardinality({a, b, c}) = 3
     /\ DOMAIN g = {a, b, c}
     /\ EdgeSet(g) = { <<a, b>>, <<b, c>>, <<c, a>> }

\* C1: removing the edges feedback_arc_set returned leaves the graph without
\* a directed cycle.
C1_AcyclicAfterRemoval ==
  FasReturned => ~is_cyclic(remove_edges(data, ret.set))

\* C2: feedback_arc_set returns exactly the edges (u, v) of the graph whose
\* target v appears before their source u in the ordering order() computed.
C2_LeftwardByPosition ==
  [][ (pc = "collect" /\ pc' = "ready") =>
        ret'.set = { e \in EdgeSet(data) : Before(ordering, e[2], e[1]) } ]_vars

\* C3: every edge feedback_arc_set returns is an edge of the graph.
C3_Subset ==
  FasReturned => ret.set \subseteq EdgeSet(data)

C3_Witness ==
  FasReturned /\ ret.set # {} /\ edge_count(data) > Cardinality(ret.set)

\* C4: on a graph without a directed cycle feedback_arc_set returns the
\* empty set.
C4_AcyclicGivesEmpty ==
  (FasReturned /\ ~is_cyclic(data)) => ret.set = {}

\* C5: on a directed triangle, whatever the vertex identifiers,
\* feedback_arc_set returns exactly one edge.
C5_TriangleOneEdge ==
  (FasReturned /\ IsTriangle(data)) => Cardinality(ret.set) = 1

\* The graph h is smaller than g: fewer vertices or fewer edges.
Smaller(h, g) ==
  \/ Cardinality(DOMAIN h) < Cardinality(DOMAIN g)
  \/ edge_count(h) < edge_count(g)

\* C6: every recursive activation of order received a graph with strictly
\* fewer vertices or strictly fewer edges than the graph of its caller.
C6_RecursionShrinks ==
  \A i \in 2..Len(stack) : Smaller(stack[i].g, stack[i-1].g)

\* An even branch (on a graph with a self-loop) whose half came out empty.
C6_Witness ==
  /\ Len(stack) >= 2
  /\ stack[1].at \in {"even_call1", "even_call2"}
  /\ \E k \in DOMAIN stack[1].g : Contains(stack[1].g[k], k)
  /\ stack[2].g = new

\* C7: every target in a neighbour list is a key, and no neighbour list
\* holds a vertex twice.
C7_KeysAndNoDuplicates ==
  \A k \in DOMAIN data :
     /\ Range(data[k]) \subseteq DOMAIN data
     /\ NoDuplicates(data[k])

\* remove_vertex ran on a vertex with edges around it, after an add_edge of
\* an edge already present could have been tried.
C7_Witness ==
  /\ call.op = "remove_vertex"
  /\ call.v \notin DOMAIN data
  /\ edge_count(data) >= 2

\* C8: remove_vertex(v) takes away v and the edges from or to v and nothing
\* else; on a graph without v it changes nothing.
C8_RemoveVertexFrame ==
  [][ call'.op = "remove_vertex" =>
        LET v == call'.v
            NotV(x) == x # v
        IN /\ DOMAIN data' = (DOMAIN data) \ {v}
           /\ \A k \in DOMAIN data' : data'[k] = SelectSeq(data[k], NotV)
           /\ (v \notin DOMAIN data => data' = data) ]_vars

C8_Witness ==
  /\ call.op = "remove_vertex"
  /\ call.v \notin DOMAIN data
  /\ edge_count(data) >= 1
  /\ Cardinality(DOMAIN data) = NumVertices - 1

\* C9: degree and edges (in both directions) of a vertex that is no key end
\* in a panic; for a key without edges they return 0 / the empty list.
C9_UnknownVertexFatal ==
  /\ (call.op = "degree" /\ call.u \notin DOMAIN data) => ret = Panic
  /\ (call.op = "edges" /\ call.v \notin DOMAIN data) => ret = Panic
  /\ (call.op = "degree" /\ call.u \in DOMAIN data /\ data[call.u] = <<>>)
        => ret = Usize(0)
  /\ (call.op = "edges" /\ call.v \in DOMAIN data /\ call.d = "Outbound"
        /\ data[call.v] = <<>>) => ret = EdgeVec(<<>>)

\* C10: the ordering order() returns holds every vertex of the graph exactly
\* once and nothing else.
C10_FullOrdering ==
  pc = "collect" =>
     /\ Range(ordering) = DOMAIN data
     /\ Len(ordering) = Cardinality(DOMAIN data)

\* v is a vertex of minimum indegree in g, the smallest identifier among ties.
MinIndegreeSmallestId(g, v) ==
  /\ v \in DOMAIN g
  /\ \A w \in DOMAIN g :
        \/ indegree(g, v) < indegree(g, w)
        \/ indegree(g, v) = indegree(g, w) /\ v <= w

\* v has an edge from or to it in g.
HasIncidentEdge(g, v) == \E e \in EdgeSet(g) : e[1] = v \/ e[2] = v

\* The activations of order that took the odd branch and wait for their
\* recursive call, which is the next activation on the stack.
OddCalls == { i \in 1..(Len(stack) - 1) : stack[i].at = "odd_call" }

\* C11 (as stated): in the odd branch the removed vertex has minimum indegree,
\* smallest identifier among ties, and the graph of the recursive call has
\* strictly fewer edges than the caller's graph.
C11_OddBranchFewerEdges ==
  \A i \in OddCalls :
     /\ edge_count(stack[i].g) % 2 = 1
     /\ MinIndegreeSmallestId(stack[i].g, stack[i].v)
     /\ edge_count(stack[i+1].g) < edge_count(stack[i].g)

\* C11 (amended): in the odd branch the removed vertex has minimum indegree,
\* smallest identifier among ties; the graph of the recursive call has exactly
\* one vertex less and never more edges, and strictly fewer edges exactly
\* when the removed vertex had an incident edge.
C11_OddBranchRemovesMinVertex ==
  \A i \in OddCalls :
     /\ edge_count(stack[i].g) % 2 = 1
     /\ MinIndegreeSmallestId(stack[i].g, stack[i].v)
     /\ DOMAIN stack[i+1].g = (DOMAIN stack[i].g) \ {stack[i].v}
     /\ edge_count(stack[i+1].g) <= edge_count(stack[i].g)
     /\ (edge_count(stack[i+1].g) < edge_count(stack[i].g))
           <=> HasIncidentEdge(stack[i].g, stack[i].v)

\* An odd branch that removed an isolated vertex, chosen by its identifier
\* among several vertices of indegree 0, while the edges all stayed.
C11_Witness ==
  \E i \in OddCalls :
     /\ ~HasIncidentEdge(stack[i].g, stack[i].v)
     /\ \E w \in DOMAIN stack[i].g :
           w # stack[i].v /\ indegree(stack[i].g, w) = indegree(stack[i].g, stack[i].v)
     /\ edge_count(stack[i+1].g) = edge_count(stack[i].g)

====
